---- MODULE Spec2Model ----
(***************************************************************************)
(* A model of snova's site configuration store (config/site_config.py),   *)
(* its domain list operations, the supervisor restart resolution and the  *)
(* update pipeline (snova/utils/snova.py).                                 *)
(*                                                                         *)
(* Python values are tagged records, so that values of different Python    *)
(* types can be compared: a str is [t |-> "str", s |-> ...], an int is     *)
(* [t |-> "num", n |-> ...], a list is [t |-> "arr", a |-> <<...>>], a     *)
(* nested dict is [t |-> "dict", d |-> f] with f a function from keys to   *)
(* values.  A top-level config dict is a sequence of <<key, value>> pairs  *)
(* with distinct keys, in insertion order, as a Python dict is.            *)
(***************************************************************************)
EXTENDS Integers, Sequences, FiniteSets, TLC

VARIABLES
    files,   \* the file system: path -> JSON text of the file, or NoFile
    inst,    \* the snova_path the calls of the config/domain API are given
    last,    \* the last completed call of the config/domain API: its arguments and result
    pc,      \* update(): the stage about to run, or how the run ended
    plan,    \* update(): its arguments (the run's flags)
    vu,      \* update(): version_upgrade[0], once is_version_upgrade() has run
    conf,    \* update(): the in-memory conf dict (snova.conf)
    trace,   \* update(): the steps executed so far, in order
    err,     \* update(): the exception that ended the run, or "none"
    rs       \* restart_supervisor_processes() or restart_systemd_processes(): locals,
             \* commands issued, position

vars == <<files, inst, last, pc, plan, vu, conf, trace, err, rs>>

----------------------------------------------------------------------------
(* Python values *)

Str(s) == [t |-> "str", s |-> s]

Num(n) == [t |-> "num", n |-> n]

Arr(q) == [t |-> "arr", a |-> q]

Dict(f) == [t |-> "dict", d |-> f]

Bool(b) == [t |-> "bool", b |-> b]

PyNone == [t |-> "none"]

\* Python truthiness of a value
Truthy(v) ==
    CASE v.t = "none" -> FALSE
      [] v.t = "str" -> v.s # ""
      [] v.t = "num" -> v.n # 0
      [] v.t = "arr" -> v.a # <<>>
      [] v.t = "dict" -> DOMAIN v.d # {}
      [] v.t = "bool" -> v.b
      [] OTHER -> TRUE

----------------------------------------------------------------------------
(* dict: a sequence of <<key, value>> pairs with distinct keys *)

DictKeys(d) == {d[i][1] : i \in DOMAIN d}

DictHas(d, k) == k \in DictKeys(d)

\* d[k]
DictItem(d, k) == d[CHOOSE i \in DOMAIN d : d[i][1] = k][2]

\* d.get(k): None when the key is absent
DictGet(d, k) == IF DictHas(d, k) THEN DictItem(d, k) ELSE PyNone

\* d[k] = v: an existing key keeps its place, a new key goes last
DictSet(d, k, v) ==
    IF DictHas(d, k)
    THEN [i \in DOMAIN d |-> IF d[i][1] = k THEN <<k, v>> ELSE d[i]]
    ELSE Append(d, <<k, v>>)

RECURSIVE DictUpdate(_, _)
\* d.update(new)
DictUpdate(d, new) ==
    IF new = <<>> THEN d
    ELSE DictUpdate(DictSet(d, Head(new)[1], Head(new)[2]), Tail(new))

\* the mapping a dict denotes: Python's == on dicts ignores insertion order
AsMap(d) == [k \in DictKeys(d) |-> DictItem(d, k)]

----------------------------------------------------------------------------
(* JSON text and the file system *)

NoFile == [t |-> "nofile"]

\* The keys the model uses, in the order sort_keys=True puts them.
SortedKeys ==
    << "db_host", "domains", "host_name", "maintenance_mode", "nginx_port",
       "pause_scheduler", "release_snova", "restart_supervisor_on_update",
       "shallow_clone", "supervisor_restart_cmd" >>

RECURSIVE SortByKey(_, _)
SortByKey(d, ks) ==
    IF ks = <<>> THEN <<>>
    ELSE (IF DictHas(d, Head(ks)) THEN << <<Head(ks), DictItem(d, Head(ks))>> >> ELSE <<>>)
         \o SortByKey(d, Tail(ks))

\* json.dump(config, f, indent=1[, sort_keys=True]): the object's members, one after
\* the other, in the dict's order or sorted by key
JsonDump(config, sort_keys) ==
    [t |-> "json", members |-> IF sort_keys THEN SortByKey(config, SortedKeys) ELSE config]

\* json.load(f): the members are inserted one after the other into a new dict
JsonLoad(text) == DictUpdate(<<>>, text.members)

\* os.path.join(snova_path, "sites", site, "site_config.json")
SiteConfigPath(snova_path, site) == <<snova_path, "sites", site, "site_config.json">>

\* os.path.join(snova_path, "sites", "common_site_config.json")
CommonConfigPath(snova_path) == <<snova_path, "sites", "common_site_config.json">>

\* open(path, "w") and a write of text: the file's content is replaced; fs.writes
\* counts the writes of the call in progress
WriteFile(fs, path, text) ==
    [files |-> [fs.files EXCEPT ![path] = text], writes |-> fs.writes + 1]

----------------------------------------------------------------------------
(* config/site_config.py: the config store *)

get_site_config(fs, site, snova_path) ==
    LET config_path == SiteConfigPath(snova_path, site)
    IN  IF fs.files[config_path] = NoFile THEN <<>> ELSE JsonLoad(fs.files[config_path])

\* put_site_config writing under the default snova_path whatever it is given
put_site_config_DefaultPath(fs, site, config, snova_path) ==
    WriteFile(fs, SiteConfigPath(".", site), JsonDump(config, FALSE))

put_site_config(fs, site, config, snova_path) ==
    WriteFile(fs, SiteConfigPath(snova_path, site), JsonDump(config, FALSE))

\* update_site_config writing new_config alone, without reading the stored config
update_site_config_Overwrite(fs, site, new_config, snova_path) ==
    put_site_config(fs, site, new_config, snova_path)

update_site_config(fs, site, new_config, snova_path) ==
    LET config == DictUpdate(get_site_config(fs, site, snova_path), new_config)
    IN  put_site_config(fs, site, config, snova_path)

update_common_site_config(fs, ddict, snova_path) ==
    LET filename == CommonConfigPath(snova_path)
        content == IF fs.files[filename] # NoFile THEN JsonLoad(fs.files[filename]) ELSE <<>>
    IN  WriteFile(fs, filename, JsonDump(DictUpdate(content, ddict), TRUE))

----------------------------------------------------------------------------
(* config/site_config.py: the domain list of a site *)

\* A domain entry is a bare name, Str(name), or a record, Dict(f) with f["domain"] the
\* name and optionally the certificate fields.

\* MatchesDomain without the record case: only a bare entry matches
MatchesDomain_BareOnly(d, domain) == d = Str(domain)

\* (isinstance(d, dict) and d["domain"] == domain) or d == domain, domain a str
MatchesDomain(d, domain) ==
    \/ d.t = "dict" /\ d.d["domain"] = Str(domain)
    \/ d = Str(domain)

get_domains(fs, site, snova_path) ==
    LET v == DictGet(get_site_config(fs, site, snova_path), "domains")
    IN  IF Truthy(v) THEN v.a ELSE <<>>

RECURSIVE DomainsDictFrom(_, _)
\* the loop of get_domains_dict: a later entry of a name replaces an earlier one
DomainsDictFrom(acc, domains) ==
    IF domains = <<>> THEN acc
    ELSE LET d == Head(domains)
             put(k, v) == [x \in DOMAIN acc \cup {k} |-> IF x = k THEN v ELSE acc[x]]
             next == CASE d.t = "str" -> put(d.s, [domain |-> d])
                       [] d.t = "dict" -> put(d.d["domain"].s, d.d)
                       [] OTHER -> acc
         IN  DomainsDictFrom(next, Tail(domains))

\* name -> canonical record
get_domains_dict(domains) == DomainsDictFrom(<<>>, domains)

\* line 100 of sync_domains: set(existing_domains.keys()) != set(new_domains.keys())
KeysDiffer(existing_domains, new_domains) == DOMAIN existing_domains # DOMAIN new_domains

\* ValuesDiffer comparing the names of the two records instead of the records
ValuesDiffer_NamesOnly(existing_domains, new_domains) ==
    \E k \in DOMAIN existing_domains :
        LET d == existing_domains[k]
            name == d["domain"].s
        IN  IF name \in DOMAIN new_domains
            THEN d["domain"] # new_domains[name]["domain"] ELSE TRUE

\* lines 104-107 of sync_domains: some record of the existing list differs from the
\* proposed list's record of its name (new_domains.get gives None for a missing name)
ValuesDiffer(existing_domains, new_domains) ==
    \E k \in DOMAIN existing_domains :
        LET d == existing_domains[k]
            name == d["domain"].s
        IN  IF name \in DOMAIN new_domains THEN d # new_domains[name] ELSE TRUE

\* the entry add_domain appends
NewEntry(domain, ssl_certificate, ssl_certificate_key) ==
    IF Truthy(ssl_certificate_key) /\ Truthy(ssl_certificate)
    THEN Dict([domain |-> Str(domain), ssl_certificate |-> ssl_certificate,
               ssl_certificate_key |-> ssl_certificate_key])
    ELSE Str(domain)

add_domain(fs, site, domain, ssl_certificate, ssl_certificate_key, snova_path) ==
    LET domains == get_domains(fs, site, snova_path)
    IN  IF \E i \in DOMAIN domains : MatchesDomain(domains[i], domain)
        THEN [files |-> fs.files, writes |-> fs.writes, out |-> "already exists"]
        ELSE LET new == Append(domains, NewEntry(domain, ssl_certificate, ssl_certificate_key))
                 w == update_site_config(fs, site, << <<"domains", Arr(new)>> >>, snova_path)
             IN  [files |-> w.files, writes |-> w.writes, out |-> ""]

\* domains with its i-th entry removed
RemoveAt(domains, i) ==
    SubSeq(domains, 1, i - 1) \o SubSeq(domains, i + 1, Len(domains))

\* remove_domain discarding every entry of the name
remove_domain_AllMatches(fs, site, domain, snova_path) ==
    LET domains == get_domains(fs, site, snova_path)
        new == SelectSeq(domains, LAMBDA d : ~MatchesDomain(d, domain))
    IN  update_site_config(fs, site, << <<"domains", Arr(new)>> >>, snova_path)

remove_domain(fs, site, domain, snova_path) ==
    LET domains == get_domains(fs, site, snova_path)
        hits == {i \in DOMAIN domains : MatchesDomain(domains[i], domain)}
        first == CHOOSE i \in hits : \A j \in hits : i <= j
        new == IF hits = {} THEN domains ELSE RemoveAt(domains, first)
    IN  update_site_config(fs, site, << <<"domains", Arr(new)>> >>, snova_path)

\* sync_domains comparing the two lists as they are written instead of their dicts
sync_domains_RawCompare(fs, site, domains, snova_path) ==
    LET changed == get_domains(fs, site, snova_path) # domains
        w == IF changed
             THEN update_site_config(fs, site, << <<"domains", Arr(domains)>> >>, ".")
             ELSE fs
    IN  [files |-> w.files, writes |-> w.writes, changed |-> changed, by |-> "lists"]

\* sync_domains writing the proposed list whether or not it found a change
sync_domains_AlwaysWrite(fs, site, domains, snova_path) ==
    LET existing_domains == get_domains_dict(get_domains(fs, site, snova_path))
        new_domains == get_domains_dict(domains)
        by == IF KeysDiffer(existing_domains, new_domains) THEN "keys"
              ELSE IF ValuesDiffer(existing_domains, new_domains) THEN "values"
              ELSE "none"
        w == update_site_config(fs, site, << <<"domains", Arr(domains)>> >>, ".")
    IN  [files |-> w.files, writes |-> w.writes, changed |-> by # "none", by |-> by]

\* The result holds changed and, in by, the comparison that set it: "keys" (line 101),
\* "values" (line 106) or neither.
sync_domains(fs, site, domains, snova_path) ==
    LET existing_domains == get_domains_dict(get_domains(fs, site, snova_path))
        new_domains == get_domains_dict(domains)
        by == IF KeysDiffer(existing_domains, new_domains) THEN "keys"
              ELSE IF ValuesDiffer(existing_domains, new_domains) THEN "values"
              ELSE "none"
        changed == by # "none"
        w == IF changed
             THEN update_site_config(fs, site, << <<"domains", Arr(domains)>> >>, ".")
             ELSE fs
    IN  [files |-> w.files, writes |-> w.writes, changed |-> changed, by |-> by]

----------------------------------------------------------------------------
(* The inputs the model draws from *)

\* the longest domain list a call is given or a site holds
MaxLen == 2

Paths == {".", "alt"}

Site == "site1"

AllFiles == {SiteConfigPath(p, Site) : p \in Paths} \cup {CommonConfigPath(p) : p \in Paths}

Names == {"a.com", "b.com"}

\* a record entry with certificates
FullRecord(n) ==
    Dict([domain |-> Str(n), ssl_certificate |-> Str("X"), ssl_certificate_key |-> Str("Y")])

\* the entries a proposed list is made of: a name bare, as a record of the name alone,
\* and as a record with certificates
Entries ==
    { Str("a.com"), Dict([domain |-> Str("a.com")]), FullRecord("a.com"),
      Str("b.com"), FullRecord("b.com") }

DomainLists == UNION {[1..n -> Entries] : n \in 0..MaxLen}

\* what a caller passes as ssl_certificate and ssl_certificate_key
CertArgs == {PyNone, Str("X")}

KeyArgs == {PyNone, Str("Y")}

\* a site config without a domain list
BareSiteConfig == << <<"host_name", Str("site1.local")>> >>

NoCall == [op |-> "none"]

\* update() and restart_supervisor_processes() not running
IdleUpdate ==
    /\ pc = "idle"
    /\ plan = <<>>
    /\ vu = FALSE
    /\ conf = <<>>
    /\ trace = <<>>
    /\ err = "none"

IdleRestart == rs = [pc |-> "idle"]

----------------------------------------------------------------------------------------------------------------------------------------
(* The domain operations as actions on the site's config file *)

Fs == [files |-> files, writes |-> 0]

AddDomain(domain, ssl_certificate, ssl_certificate_key) ==
    LET r == add_domain(Fs, Site, domain, ssl_certificate, ssl_certificate_key, inst)
    IN  /\ Len(get_domains(r, Site, inst)) <= MaxLen
        /\ files' = r.files
        /\ last' = [op |-> "add_domain", domain |-> domain,
                    ssl_certificate |-> ssl_certificate,
                    ssl_certificate_key |-> ssl_certificate_key,
                    writes |-> r.writes, out |-> r.out]
        /\ UNCHANGED <<inst, pc, plan, vu, conf, trace, err, rs>>

RemoveDomain(domain) ==
    LET r == remove_domain(Fs, Site, domain, inst)
    IN  /\ files' = r.files
        /\ last' = [op |-> "remove_domain", domain |-> domain, writes |-> r.writes,
                    before |-> Len(get_domains(Fs, Site, inst))]
        /\ UNCHANGED <<inst, pc, plan, vu, conf, trace, err, rs>>

SyncDomains(domains) ==
    LET r == sync_domains(Fs, Site, domains, inst)
    IN  /\ files' = r.files
        /\ last' = [op |-> "sync_domains", domains |-> domains,
                    writes |-> r.writes, changed |-> r.changed, by |-> r.by]
        /\ UNCHANGED <<inst, pc, plan, vu, conf, trace, err, rs>>

\* the site of each installation in paths exists, with a config without a domain list
InitFiles(paths) ==
    files = [f \in AllFiles |->
                IF \E p \in paths : f = SiteConfigPath(p, Site)
                THEN JsonDump(BareSiteConfig, FALSE) ELSE NoFile]

\* the calls are given the default snova_path, "."
InitDomains ==
    /\ inst = "."
    /\ InitFiles({inst})
    /\ last = NoCall
    /\ IdleUpdate
    /\ IdleRestart

NextDomains ==
    \/ \E n \in Names, c \in CertArgs, k \in KeyArgs : AddDomain(n, c, k)
    \/ \E n \in Names : RemoveDomain(n)
    \/ \E ds \in DomainLists : SyncDomains(ds)

SpecDomains == InitDomains /\ [][NextDomains]_vars

\* the calls are given any snova_path
InitDomainsAt ==
    /\ inst \in Paths
    /\ InitFiles({inst})
    /\ last = NoCall
    /\ IdleUpdate
    /\ IdleRestart

SpecDomainsAt == InitDomainsAt /\ [][NextDomains]_vars

----------------------------------------------------------------------------
(* Claims about the domain list *)

\* the domain name of an entry
NameOf(e) == IF e.t = "str" THEN e.s ELSE e.d["domain"].s

\* the canonical record of an entry: a bare name stands for the record of the name alone
Canonical(e) == IF e.t = "str" THEN [domain |-> e] ELSE e.d

\* The mapping from domain name to canonical record a list stands for; of several
\* entries of one name the last one counts.
NormalForm(domains) ==
    [n \in {NameOf(domains[i]) : i \in DOMAIN domains} |->
        LET hits == {i \in DOMAIN domains : NameOf(domains[i]) = n}
        IN  Canonical(domains[CHOOSE i \in hits : \A j \in hits : j <= i])]

\* the domain list the site holds before the step, and after it
Existing == get_domains(Fs, Site, inst)

Existing1 == get_domains([files |-> files', writes |-> 0], Site, inst)

\* C4: a sync_domains call whose proposed list stands for the same mapping from domain
\* name to canonical record as the site's existing list returns changed = false,
\* whatever the order of the entries and whichever way each entry is written.
C4_SyncSameNotChanged ==
    [][(last'.op = "sync_domains" /\ NormalForm(Existing) = NormalForm(last'.domains))
        => last'.changed = FALSE]_vars

\* C4 witness: the site holds a.com bare and then b.com with certificates; a call
\* proposing b.com first and a.com as a record of the name alone returned changed = false.
C4_Witness ==
    /\ last.op = "sync_domains"
    /\ last.changed = FALSE
    /\ last.domains = <<FullRecord("b.com"), Dict([domain |-> Str("a.com")])>>
    /\ get_domains(Fs, Site, inst) = <<Str("a.com"), FullRecord("b.com")>>

\* C5: a sync_domains call returns changed = true whenever the existing and the proposed
\* list stand for different mappings: the sets of names differ, or a name of both has
\* canonical records that differ, whichever side holds the extra or different field.
C5_SyncDifferentChanged ==
    [][(last'.op = "sync_domains" /\ NormalForm(Existing) # NormalForm(last'.domains))
        => last'.changed = TRUE]_vars

\* C5 witness: a call proposing a.com and b.com bare returned changed = true, and what
\* set it was the comparison of the records: the existing list held the same names and
\* one of them with certificates.
C5_Witness ==
    /\ last.op = "sync_domains"
    /\ last.changed = TRUE
    /\ last.by = "values"
    /\ last.domains = <<Str("a.com"), Str("b.com")>>

\* C6: an add_domain call for a name the site's list already holds, bare or as a
\* record, leaves every file as it was, writes nothing and reports the conflict,
\* whatever certificate arguments it is given.
C6_AddExistingIsNoOp ==
    [][(last'.op = "add_domain"
        /\ \E i \in DOMAIN Existing : NameOf(Existing[i]) = last'.domain)
        => /\ files' = files
           /\ Existing1 = Existing
           /\ last'.writes = 0
           /\ last'.out = "already exists"]_vars

\* C6 witness: add_domain was called with certificates for a name the list holds bare,
\* and the conflict was reported.
C6_Witness ==
    /\ last.op = "add_domain"
    /\ Truthy(last.ssl_certificate) /\ Truthy(last.ssl_certificate_key)
    /\ last.out = "already exists"
    /\ \E i \in DOMAIN Existing : Existing[i] = Str(last.domain)

\* C11: whatever snova_path a sync_domains call is given, when it returns changed = true
\* the domain list stored for the site in the installation at that snova_path, the one
\* the existing list was read from, is the proposed list as it was given: the same
\* entries, written the same way, in the same order.
C11_SyncPersistsAtSnovaPath ==
    [][(last'.op = "sync_domains" /\ last'.changed) => Existing1 = last'.domains]_vars

\* no two entries of the list have the same domain name
NamesUnique(domains) ==
    \A i, j \in DOMAIN domains : NameOf(domains[i]) = NameOf(domains[j]) => i = j

\* C12: starting from a site without domains, after any sequence of add_domain,
\* remove_domain and sync_domains calls no two entries of the site's stored domain list
\* have the same domain name, a bare entry and a record of one name counting as the same.
C12_NamesUnique == NamesUnique(Existing)

\* C18: a sync_domains call that returns changed = false writes nothing: every file,
\* and with it the site's stored list, its order and the way each entry is written, is
\* what it was before the call.
C18_SyncUnchangedNoWrite ==
    [][(last'.op = "sync_domains" /\ ~last'.changed)
        => /\ files' = files
           /\ last'.writes = 0]_vars

\* C18 witness: the site holds a.com as a record of the name alone and then b.com bare;
\* a call proposing b.com and then a.com, both bare, returned changed = false, and the
\* site still holds its own list.
C18_Witness ==
    /\ last.op = "sync_domains"
    /\ ~last.changed
    /\ last.writes = 0
    /\ last.domains = <<Str("b.com"), Str("a.com")>>
    /\ Existing = <<Dict([domain |-> Str("a.com")]), Str("b.com")>>

\* C19: a remove_domain call removes the first entry of the stored list, in list order,
\* whose domain name is the name given, bare or record, and nothing else: the entries
\* before it and after it are the stored list's, as written and in their order; when no
\* entry has the name the stored list is what it was.
C19_RemoveFirstMatchOnly ==
    [][last'.op = "remove_domain" =>
        LET hits == {i \in DOMAIN Existing : NameOf(Existing[i]) = last'.domain}
        IN  IF hits = {} THEN Existing1 = Existing
            ELSE LET first == CHOOSE i \in hits : \A j \in hits : i <= j
                 IN  /\ Len(Existing1) = Len(Existing) - 1
                     /\ \A i \in 1..(first - 1) : Existing1[i] = Existing[i]
                     /\ \A i \in (first + 1)..Len(Existing) : Existing1[i - 1] = Existing[i]]_vars

\* C19 witness: a.com was removed from a list of two entries and what is left is the
\* record of a.com with certificates: the list held the name twice and lost one entry.
C19_Witness ==
    /\ last.op = "remove_domain"
    /\ last.domain = "a.com"
    /\ last.before = Len(Existing) + 1
    /\ Existing = <<FullRecord("a.com")>>

----------------------------------------------------------------------------
(* The config store as actions: put, get and update of a site's config and update of
   the installation's config *)

ConfigKeys == {"host_name", "nginx_port"}

\* a plain value and two nested mappings with different keys
ConfigValues == {Num(80), Dict([a |-> Num(1)]), Dict([b |-> Num(2)])}

\* the well-formed mappings over ConfigKeys: dicts of distinct keys, in every order
Configs ==
    {<<>>}
    \cup {<< <<k, v>> >> : k \in ConfigKeys, v \in ConfigValues}
    \cup {c \in {<< <<k1, v1>>, <<k2, v2>> >> :
                    k1 \in ConfigKeys, k2 \in ConfigKeys,
                    v1 \in ConfigValues, v2 \in ConfigValues} : c[1][1] # c[2][1]}

PutSiteConfig(config) ==
    LET r == put_site_config(Fs, Site, config, inst)
    IN  /\ files' = r.files
        /\ last' = [op |-> "put_site_config", config |-> config, writes |-> r.writes]
        /\ UNCHANGED <<inst, pc, plan, vu, conf, trace, err, rs>>

\* the result is kept with the call it follows
GetSiteConfig ==
    /\ last' = [op |-> "get_site_config", result |-> get_site_config(Fs, Site, inst),
                after |-> IF last.op = "put_site_config"
                          THEN [op |-> last.op, config |-> last.config]
                          ELSE [op |-> last.op]]
    /\ UNCHANGED <<files, inst, pc, plan, vu, conf, trace, err, rs>>

UpdateSiteConfig(new_config) ==
    LET r == update_site_config(Fs, Site, new_config, inst)
    IN  /\ files' = r.files
        /\ last' = [op |-> "update_site_config", new_config |-> new_config,
                    writes |-> r.writes]
        /\ UNCHANGED <<inst, pc, plan, vu, conf, trace, err, rs>>

UpdateCommonSiteConfig(ddict) ==
    LET r == update_common_site_config(Fs, ddict, inst)
    IN  /\ files' = r.files
        /\ last' = [op |-> "update_common_site_config", ddict |-> ddict,
                    writes |-> r.writes]
        /\ UNCHANGED <<inst, pc, plan, vu, conf, trace, err, rs>>

\* no config file exists yet
InitConfig ==
    /\ inst \in Paths
    /\ files = [f \in AllFiles |-> NoFile]
    /\ last = NoCall
    /\ IdleUpdate
    /\ IdleRestart

NextConfig ==
    \/ \E c \in Configs : PutSiteConfig(c)
    \/ GetSiteConfig
    \/ \E c \in Configs : UpdateSiteConfig(c)
    \/ \E c \in Configs : UpdateCommonSiteConfig(c)

SpecConfig == InitConfig /\ [][NextConfig]_vars

----------------------------------------------------------------------------
(* Claims about the config store *)

\* C9: a get_site_config that follows a put_site_config(site, X) under the same
\* snova_path returns a mapping equal to X, and a get_site_config of a site whose
\* config file does not exist returns the empty mapping.
C9_PutGetRoundTrip ==
    last.op = "get_site_config" =>
        /\ last.after.op = "put_site_config" => AsMap(last.result) = AsMap(last.after.config)
        /\ files[SiteConfigPath(inst, Site)] = NoFile => last.result = <<>>

\* C9 witness: under a snova_path other than the default, a mapping of two keys, one of
\* them with a nested value, was put and then read back.
C9_Witness ==
    /\ inst = "alt"
    /\ last.op = "get_site_config"
    /\ last.after.op = "put_site_config"
    /\ last.after.config = << <<"nginx_port", Num(80)>>, <<"host_name", Dict([a |-> Num(1)])>> >>
    /\ Len(last.result) = 2

\* the stored config a key/value reading of a file gives: nothing for a missing file
Stored(fls, path) == IF fls[path] = NoFile THEN <<>> ELSE AsMap(fls[path].members)

\* new is old with the keys of partial set to partial's values, and nothing else
MergedAtTopLevel(old, partial, new) ==
    /\ DOMAIN new = DOMAIN old \cup DOMAIN partial
    /\ \A k \in DOMAIN partial : new[k] = partial[k]
    /\ \A k \in DOMAIN old \ DOMAIN partial : new[k] = old[k]

\* C10: an update of a site's config or of the installation's config with a partial
\* mapping P leaves every stored key that is not a key of P with its value, gives every
\* key of P the value P gives it (a nested value whole), and adds no other key.
C10_UpdateMergesTopLevel ==
    [][/\ last'.op = "update_site_config" =>
            MergedAtTopLevel(Stored(files, SiteConfigPath(inst, Site)),
                             AsMap(last'.new_config),
                             Stored(files', SiteConfigPath(inst, Site)))
       /\ last'.op = "update_common_site_config" =>
            MergedAtTopLevel(Stored(files, CommonConfigPath(inst)),
                             AsMap(last'.ddict),
                             Stored(files', CommonConfigPath(inst)))]_vars

\* C10 witness: the site's config was updated with a nested value for host_name alone,
\* and the stored config holds that value whole beside a key the update did not name.
C10_Witness ==
    /\ last.op = "update_site_config"
    /\ last.new_config = << <<"host_name", Dict([b |-> Num(2)])>> >>
    /\ Stored(files, SiteConfigPath(inst, Site))
         = [k \in ConfigKeys |-> IF k = "host_name" THEN Dict([b |-> Num(2)]) ELSE Num(80)]

----------------------------------------------------------------------------
(* snova/utils/snova.py: restart_supervisor_processes *)

\* get_snova_name(snova_path)
snova_name == "myinstall"

\* the exit status of a command that was not found (line 295)
NotFound == 127

\* the exit statuses a failed probe is given: not found, and a generic failure
ExitCodes == {NotFound, 1}

\* What "supervisorctl status" prints, as far as the function reads it: whether it holds
\* the permission error text, and which of the group names "<name>-web:",
\* "<name>-workers:" and "<name>-processes:" it holds.
GroupNames == {"web", "workers", "processes"}

StatusOutputs == [perm : BOOLEAN, has : SUBSET GroupNames]

NoOutput == [perm |-> FALSE, has |-> {}]

\* the commands the function issues
StatusCmd(sudo) == [cmd |-> "supervisorctl status", sudo |-> sudo]

RestartCmd(sudo, group) == [cmd |-> "supervisorctl restart", sudo |-> sudo, group |-> group]

OverrideCmd == [cmd |-> "supervisor_restart_cmd", sudo |-> FALSE]

WebGroup == "myinstall-web:\t"

CombinedGroup == "myinstall-workers: myinstall-web:"

LegacyGroup == "myinstall-processes:"

FallbackGroup == "sparrow:"

\* SelectGroup without the test of web_workers
SelectGroup_AnyWeb(web_workers, supervisor_status) ==
    IF "web" \in supervisor_status.has THEN WebGroup
    ELSE IF "workers" \in supervisor_status.has THEN CombinedGroup
    ELSE IF "processes" \in supervisor_status.has THEN LegacyGroup
    ELSE FallbackGroup

\* lines 307-319: the group to restart
SelectGroup(web_workers, supervisor_status) ==
    IF web_workers /\ "web" \in supervisor_status.has THEN WebGroup
    ELSE IF "workers" \in supervisor_status.has THEN CombinedGroup
    ELSE IF "processes" \in supervisor_status.has THEN LegacyGroup
    ELSE FallbackGroup

\* the locals of a call that has issued no command yet.  denied and failed are
\* history: whether the output of the probe without escalation held the permission
\* error, and whether the override or restart command failed.
Locals(at, cmd, web_workers, raise) ==
    [pc |-> at, cmd |-> cmd,
     web_workers |-> web_workers, raise |-> raise, sudo |-> FALSE,
     supervisor_status |-> NoOutput, returncode |-> 0, group |-> "",
     cmds |-> <<>>, log |-> <<>>, exc |-> "none", denied |-> FALSE, failed |-> FALSE]

\* RestartCall without the test of cmd: the probe is run whatever conf names
RestartCall_NoOverride(cmd, web_workers, raise) ==
    /\ rs.pc = "idle"
    /\ rs' = Locals("probe", cmd, web_workers, raise)
    /\ UNCHANGED <<files, inst, last, pc, plan, vu, conf, trace, err>>

\* the call: lines 279-287.  cmd is whether conf names supervisor_restart_cmd.
RestartCall(cmd, web_workers, raise) ==
    /\ rs.pc = "idle"
    /\ rs' = Locals(IF cmd THEN "override" ELSE "probe", cmd, web_workers, raise)
    /\ UNCHANGED <<files, inst, last, pc, plan, vu, conf, trace, err>>

\* snova.run(command, _raise=_raise): a command that fails makes run raise
\* CommandFailedError when _raise is set, and return the failure otherwise
run(failure, raise) ==
    IF failure /\ raise THEN "raises"
    ELSE IF failure THEN "failure"
    ELSE "ok"

\* RunResult without lines 322-323: a failure that run returns is not logged
RunResult_Silent(r, command, failure) ==
    LET ran == [r EXCEPT !.cmds = Append(@, command), !.failed = failure]
    IN  IF run(failure, r.raise) = "raises"
        THEN [ran EXCEPT !.pc = "raised", !.exc = "CommandFailedError"]
        ELSE [ran EXCEPT !.pc = "returned"]

\* snova.run of line 288 or 321, and lines 322-323: the warning after a restart
\* command whose failure was returned
RunResult(r, command, failure) ==
    LET ran == [r EXCEPT !.cmds = Append(@, command), !.failed = failure]
        result == run(failure, r.raise)
    IN  IF result = "raises"
        THEN [ran EXCEPT !.pc = "raised", !.exc = "CommandFailedError"]
        ELSE IF result = "failure" /\ command.cmd = "supervisorctl restart"
        THEN [ran EXCEPT !.pc = "returned",
                         !.log = Append(@, "restarting supervisor failed")]
        ELSE [ran EXCEPT !.pc = "returned"]

\* line 288: the override command
RunOverride(failure) ==
    /\ rs.pc = "override"
    /\ rs' = RunResult(rs, OverrideCmd, failure)
    /\ UNCHANGED <<files, inst, last, pc, plan, vu, conf, trace, err>>

\* lines 301-305 after a probe that gave output: escalate on a permission error
AfterStatus(r, output) ==
    IF ~r.sudo /\ output.perm
    THEN [r EXCEPT !.sudo = TRUE, !.supervisor_status = output, !.pc = "sudo_probe"]
    ELSE [r EXCEPT !.supervisor_status = output, !.pc = "restart"]

\* ProbeFailed that escalates after every failure of the probe
ProbeFailed_AlwaysEscalate(r, returncode) ==
    [r EXCEPT !.returncode = returncode, !.sudo = TRUE, !.pc = "sudo_probe"]

\* lines 294-298: the probe raised CalledProcessError
ProbeFailed(r, returncode) ==
    IF returncode = NotFound
    THEN [r EXCEPT !.returncode = returncode, !.pc = "returned",
                   !.log = Append(@, "restart failed: Couldn't find supervisorctl in PATH")]
    ELSE [r EXCEPT !.returncode = returncode, !.sudo = TRUE, !.pc = "sudo_probe"]

\* line 293: the probe without escalation gives output
ProbeOk(output) ==
    /\ rs.pc = "probe"
    /\ rs' = AfterStatus([rs EXCEPT !.cmds = Append(@, StatusCmd(FALSE)),
                                    !.denied = output.perm], output)
    /\ UNCHANGED <<files, inst, last, pc, plan, vu, conf, trace, err>>

\* line 293: the probe without escalation exits with a non-zero status
ProbeFails(returncode) ==
    /\ rs.pc = "probe"
    /\ rs' = ProbeFailed([rs EXCEPT !.cmds = Append(@, StatusCmd(FALSE))], returncode)
    /\ UNCHANGED <<files, inst, last, pc, plan, vu, conf, trace, err>>

\* lines 299 and 305: the probe with sudo gives output
SudoProbeOk(output) ==
    /\ rs.pc = "sudo_probe"
    /\ rs' = AfterStatus([rs EXCEPT !.cmds = Append(@, StatusCmd(TRUE))], output)
    /\ UNCHANGED <<files, inst, last, pc, plan, vu, conf, trace, err>>

\* lines 299 and 305: the probe with sudo fails, and nothing catches its error
SudoProbeFails ==
    /\ rs.pc = "sudo_probe"
    /\ rs' = [rs EXCEPT !.cmds = Append(@, StatusCmd(TRUE)), !.pc = "raised",
                        !.exc = "CalledProcessError"]
    /\ UNCHANGED <<files, inst, last, pc, plan, vu, conf, trace, err>>

\* lines 307-323: the group is chosen and restarted
RestartGroup(failure) ==
    /\ rs.pc = "restart"
    /\ LET group == SelectGroup(rs.web_workers, rs.supervisor_status)
       IN  rs' = RunResult([rs EXCEPT !.group = group], RestartCmd(rs.sudo, group), failure)
    /\ UNCHANGED <<files, inst, last, pc, plan, vu, conf, trace, err>>

InitRestart ==
    /\ inst = "."
    /\ files = [f \in AllFiles |-> NoFile]
    /\ last = NoCall
    /\ IdleUpdate
    /\ IdleRestart

NextRestart ==
    \/ \E cmd \in BOOLEAN, web_workers \in BOOLEAN, raise \in BOOLEAN :
          RestartCall(cmd, web_workers, raise)
    \/ \E failure \in BOOLEAN : RunOverride(failure)
    \/ \E output \in StatusOutputs : ProbeOk(output)
    \/ \E returncode \in ExitCodes : ProbeFails(returncode)
    \/ \E output \in StatusOutputs : SudoProbeOk(output)
    \/ SudoProbeFails
    \/ \E failure \in BOOLEAN : RestartGroup(failure)

SpecRestart == InitRestart /\ [][NextRestart]_vars

----------------------------------------------------------------------------
(* Claims about restart_supervisor_processes *)

\* a restart command was issued
RestartIssued == rs.pc \in {"returned", "raised"} /\ rs.group # ""

\* C7: after a probe that gave output, the group restarted is the first of the
\* conventions that applies: the web-only group when web_workers is set and the output
\* holds "<name>-web:", else the combined group when it holds "<name>-workers:", else
\* the legacy group when it holds "<name>-processes:", else the fallback group; the
\* web-only group is never restarted when web_workers is false.
C7_GroupByPriority ==
    RestartIssued =>
        LET has == rs.supervisor_status.has
            web == rs.web_workers /\ "web" \in has
            issued == rs.cmds[Len(rs.cmds)]
        IN  /\ issued.cmd = "supervisorctl restart"
            /\ issued.group = rs.group
            /\ web => rs.group = WebGroup
            /\ (~web /\ "workers" \in has) => rs.group = CombinedGroup
            /\ (~web /\ "workers" \notin has /\ "processes" \in has) => rs.group = LegacyGroup
            /\ (~web /\ "workers" \notin has /\ "processes" \notin has)
                  => rs.group = FallbackGroup
            /\ ~rs.web_workers => rs.group # WebGroup

\* C7 witness: the output held all three names and web_workers was false: the combined
\* group was restarted.
C7_Witness ==
    /\ RestartIssued
    /\ ~rs.web_workers
    /\ rs.supervisor_status.has = GroupNames
    /\ rs.group = CombinedGroup

\* C8: with no override command, a probe without escalation that fails with exit
\* status 127 makes the call return: the probe is the only command issued, nothing is
\* run with sudo, no restart command is run and nothing is raised.
C8_NotFoundSkips ==
    (rs.pc # "idle" /\ ~rs.cmd /\ rs.returncode = NotFound) =>
        /\ rs.pc = "returned"
        /\ rs.exc = "none"
        /\ rs.cmds = <<StatusCmd(FALSE)>>
        /\ rs.group = ""

\* C8 witness: a call in strict mode whose probe failed with 127 has returned.
C8_Witness ==
    /\ rs.pc = "returned"
    /\ ~rs.cmd
    /\ rs.raise
    /\ rs.returncode = NotFound
    /\ rs.log # <<>>

\* the run has ended, by a return or by an exception
RestartEnded == rs.pc \in {"returned", "raised"}

\* C13: when the installation config names supervisor_restart_cmd, the call runs that
\* command and ends, whether the command fails or not: the override command is the
\* only command it ever issues; no status probe, nothing with sudo and no restart of a
\* group.
C13_OverrideOnly ==
    (rs.pc # "idle" /\ rs.cmd) =>
        /\ rs.pc \in {"override", "returned", "raised"}
        /\ rs.cmds = IF RestartEnded THEN <<OverrideCmd>> ELSE <<>>
        /\ ~rs.sudo
        /\ rs.group = ""
        /\ rs.supervisor_status = NoOutput

\* C13 witness: the override command failed in a call in strict mode, and the call
\* ended with its error after that one command.
C13_Witness ==
    /\ rs.pc = "raised"
    /\ rs.cmd
    /\ rs.failed
    /\ rs.cmds = <<OverrideCmd>>

\* a command was issued with sudo
SudoIssued == \E i \in DOMAIN rs.cmds : rs.cmds[i].sudo

\* C14: without an override command, escalation is applied if and only if the probe
\* without escalation indicated a permission error: then and only then the probe is
\* run again with sudo and the restart command carries sudo; a probe without
\* escalation that succeeds without a permission error is followed by no command with
\* sudo; and once escalation is set the restart command is issued with sudo.
C14_EscalatesIffPermissionError ==
    (RestartEnded /\ ~rs.cmd /\ rs.returncode # NotFound) =>
        /\ SudoIssued <=> rs.denied
        /\ rs.sudo <=> rs.denied
        /\ RestartIssued => rs.cmds[Len(rs.cmds)].sudo = rs.sudo

\* C15: in a call without strict mode, a restart command that fails makes the call
\* log a warning and return without an exception; the failure of the command is
\* raised only in a call in strict mode.
C15_FailureWarnsUnlessStrict ==
    (rs.pc # "idle" /\ rs.failed) =>
        IF rs.raise
        THEN /\ rs.pc = "raised"
             /\ rs.exc = "CommandFailedError"
        ELSE /\ rs.pc = "returned"
             /\ rs.exc = "none"
             /\ RestartIssued => rs.log = <<"restarting supervisor failed">>

\* C15 witness: the restart of a group failed in a call without strict mode; the call
\* returned and logged the warning.
C15_Witness ==
    /\ rs.pc = "returned"
    /\ ~rs.raise
    /\ rs.failed
    /\ RestartIssued
    /\ rs.log # <<>>

----------------------------------------------------------------------------
(* snova/utils/snova.py: update() *)

\* the number of sites of the installation
MaxSites == 3

\* snova.sites
sites == [i \in 1..MaxSites |-> i]

\* os.path.abspath("."): the installation update() works on
here == "."

\* update()'s arguments that decide what runs
Plans ==
    [pull : BOOLEAN, patch : BOOLEAN, build : BOOLEAN, requirements : BOOLEAN,
     backup : BOOLEAN, force : BOOLEAN, reset : BOOLEAN]

\* the installation configs a run starts from: maintenance mode off, and each of
\* release_snova, restart_supervisor_on_update and shallow_clone set or absent
InitialConfs ==
    { << <<"maintenance_mode", Num(0)>>, <<"pause_scheduler", Num(0)>> >>
        \o (IF r THEN << <<"release_snova", Bool(TRUE)>> >> ELSE <<>>)
        \o (IF p THEN << <<"restart_supervisor_on_update", Bool(TRUE)>> >> ELSE <<>>)
        \o (IF c THEN << <<"shallow_clone", Bool(TRUE)>> >> ELSE <<>>)
      : r \in BOOLEAN, p \in BOOLEAN, c \in BOOLEAN }

\* a step of the run, as trace records it
Step(name) == [step |-> name, site |-> 0]

MigrateStep(site) == [step |-> "migrate_site", site |-> site]

\* the names of the steps executed so far
Executed == {trace[i].step : i \in DOMAIN trace}

\* update_config(conf, snova_path=snova_path): the installation config is read, updated
\* with conf and written
update_config(fs, new_config, snova_path) ==
    update_common_site_config(fs, new_config, snova_path)

\* the installation config as the file holds it
Persisted == Stored(files, CommonConfigPath(here))

\* the flags of a run as its locals hold them, with the arguments as they were given
\* kept beside them in given
Flags(args) ==
    [f \in DOMAIN args \cup {"given"} |-> IF f = "given" THEN args ELSE args[f]]

\* lines 388-413: the call, and snova = Snova(snova_path)
UpdateCall(args) ==
    /\ pc = "idle"
    /\ pc' = "patches"
    /\ plan' = Flags(args)
    /\ UNCHANGED <<files, inst, last, vu, conf, trace, err, rs>>

\* An opaque step of the run returns or raises: the step is traced; on an error the run
\* ends there, with nothing undone.
Outcome(name, ok, error, next) ==
    /\ trace' = Append(trace, Step(name))
    /\ IF ok THEN pc' = next /\ err' = err
             ELSE pc' = "failed" /\ err' = error

\* lines 414-415: patches.run(snova_path=snova_path), then conf = snova.conf
RunPatches(ok) ==
    /\ pc = "patches"
    /\ Outcome("internal_patches", ok, "Exception", "release")
    /\ conf' = IF ok THEN JsonLoad(files[CommonConfigPath(here)]) ELSE conf
    /\ UNCHANGED <<files, inst, last, plan, vu, rs>>

\* CheckRelease without lines 420-421: the flags stay as they were given
CheckRelease_NoDefault ==
    /\ pc = "release"
    /\ IF Truthy(DictGet(conf, "release_snova"))
       THEN pc' = "failed" /\ err' = "CannotUpdateReleaseSnova"
       ELSE pc' = "branch" /\ err' = err
    /\ UNCHANGED <<files, inst, last, plan, vu, conf, trace, rs>>

\* lines 417-426: the release check, and the default of the four flags
CheckRelease ==
    /\ pc = "release"
    /\ IF Truthy(DictGet(conf, "release_snova"))
       THEN /\ pc' = "failed"
            /\ err' = "CannotUpdateReleaseSnova"
            /\ plan' = plan
       ELSE /\ pc' = "branch"
            /\ err' = err
            /\ plan' = IF ~(plan.pull \/ plan.patch \/ plan.build \/ plan.requirements)
                       THEN [plan EXCEPT !.pull = TRUE, !.patch = TRUE, !.build = TRUE,
                                         !.requirements = TRUE]
                       ELSE plan
    /\ UNCHANGED <<files, inst, last, vu, conf, trace, rs>>

\* line 428, validate_branch (lines 604-631): sys.exit(1) when sparrow or shopper is on
\* the branch master
ValidateBranch(on_master) ==
    /\ pc = "branch"
    /\ IF on_master THEN pc' = "failed" /\ err' = "SystemExit"
                    ELSE pc' = "version" /\ err' = err
    /\ UNCHANGED <<files, inst, last, plan, vu, conf, trace, rs>>

\* line 430: version_upgrade = is_version_upgrade()
VersionDetect(major) ==
    /\ pc = "version"
    /\ vu' = major
    /\ pc' = "confirm"
    /\ UNCHANGED <<files, inst, last, plan, conf, trace, err, rs>>

\* line 456 and line 384: version_upgrade[0] or (not version_upgrade[0] and force)
UpgradeOrForce == vu \/ (~vu /\ plan.force)

\* the target versions is_version_upgrade() reports
Versions == {5, 6}

\* validate_upgrade (lines 240-242): whether it raises, given the target version and
\* whether which() finds npm, node and nodejs
validate_upgrade(to_ver, npm, node, nodejs) == to_ver >= 6 /\ ~npm /\ ~node /\ ~nodejs

\* HandleVersionUpgrade after the write of lines 433-434 instead of before it
HandleVersionUpgrade_AfterWrite(confirmed, runtime_missing) ==
    /\ pc = "confirm"
    /\ files' = update_config(Fs, DictUpdate(conf, << <<"maintenance_mode", Num(1)>>,
                                                     <<"pause_scheduler", Num(1)>> >>), here).files
    /\ trace' = IF vu /\ ~plan.force THEN Append(trace, Step("confirm")) ELSE trace
    /\ IF vu /\ ~plan.force /\ ~confirmed
       THEN pc' = "failed" /\ err' = "Abort"
       ELSE IF UpgradeOrForce /\ runtime_missing
       THEN pc' = "failed" /\ err' = "Please install nodejs and npm"
       ELSE pc' = "enter_maintenance" /\ err' = err
    /\ UNCHANGED <<inst, last, plan, vu, conf, rs>>

\* line 431, handle_version_upgrade (lines 354-385): the operator confirms a major
\* upgrade or not, unless force is given; the shallow clone warning; validate_upgrade
\* raises or not
HandleVersionUpgrade(confirmed, runtime_missing) ==
    /\ pc = "confirm"
    /\ LET asked == vu /\ ~plan.force
           warned == ~plan.reset /\ Truthy(DictGet(conf, "shallow_clone"))
           steps == (IF asked THEN <<Step("confirm")>> ELSE <<>>)
                    \o (IF warned /\ (~asked \/ confirmed)
                        THEN <<Step("shallow_clone_warning")>> ELSE <<>>)
       IN  /\ trace' = trace \o steps
           /\ IF asked /\ ~confirmed
              THEN pc' = "failed" /\ err' = "Abort"
              ELSE IF UpgradeOrForce /\ runtime_missing
              THEN pc' = "failed" /\ err' = "Please install nodejs and npm"
              ELSE pc' = "enter_maintenance" /\ err' = err
    /\ UNCHANGED <<files, inst, last, plan, vu, conf, rs>>

\* EnterMaintenance without the write: conf is updated in memory alone
EnterMaintenance_NoPersist ==
    /\ pc = "enter_maintenance"
    /\ conf' = DictUpdate(conf, << <<"maintenance_mode", Num(1)>>, <<"pause_scheduler", Num(1)>> >>)
    /\ trace' = Append(trace, Step("enter_maintenance"))
    /\ pc' = "backup"
    /\ UNCHANGED <<files, inst, last, plan, vu, err, rs>>

\* lines 433-434
EnterMaintenance ==
    /\ pc = "enter_maintenance"
    /\ conf' = DictUpdate(conf, << <<"maintenance_mode", Num(1)>>, <<"pause_scheduler", Num(1)>> >>)
    /\ files' = update_config(Fs, conf', here).files
    /\ trace' = Append(trace, Step("enter_maintenance"))
    /\ pc' = "backup"
    /\ UNCHANGED <<inst, last, plan, vu, err, rs>>

\* A stage behind a flag: skipped when the flag is off, else an opaque step.
Stage(at, flag, name, ok, next) ==
    /\ pc = at
    /\ IF flag
       THEN Outcome(name, ok, "CalledProcessError", next)
       ELSE pc' = next /\ UNCHANGED <<trace, err>>
    /\ UNCHANGED <<files, inst, last, plan, vu, conf, rs>>

\* lines 436-438: backup_all_sites
Backup(ok) == Stage("backup", plan.backup, "backup", ok, "pull")

\* lines 440-442: pull_apps
Pull(ok) == Stage("pull", plan.pull, "pull", ok, "requirements")

\* lines 444-446: snova.setup.requirements()
Requirements(ok) == Stage("requirements", plan.requirements, "requirements", ok, "patch")

\* the sites migrate_site has been called for
Migrated == Len(SelectSeq(trace, LAMBDA e : e.step = "migrate_site"))

\* lines 448-450 with the flag off, or patch_sites (lines 266-276) with no site left
PatchDone ==
    /\ pc = "patch"
    /\ ~plan.patch \/ Migrated = Len(sites)
    /\ pc' = "build"
    /\ UNCHANGED <<files, inst, last, plan, vu, conf, trace, err, rs>>

\* MigrateSite going on to the next site after a migration that failed
MigrateSite_KeepGoing(ok) ==
    /\ pc = "patch"
    /\ plan.patch
    /\ Migrated < Len(sites)
    /\ trace' = Append(trace, MigrateStep(sites[Migrated + 1]))
    /\ pc' = pc
    /\ err' = IF ok THEN err ELSE "PatchError"
    /\ UNCHANGED <<files, inst, last, plan, vu, conf, rs>>

\* patch_sites (lines 272-276): migrate_site for the next site; its
\* CalledProcessError is raised as PatchError
MigrateSite(ok) ==
    /\ pc = "patch"
    /\ plan.patch
    /\ Migrated < Len(sites)
    /\ trace' = Append(trace, MigrateStep(sites[Migrated + 1]))
    /\ IF ok THEN pc' = pc /\ err' = err
             ELSE pc' = "failed" /\ err' = "PatchError"
    /\ UNCHANGED <<files, inst, last, plan, vu, conf, rs>>

\* lines 452-454: snova.build()
Build(ok) == Stage("build", plan.build, "build", ok, "post_upgrade")

\* lines 456-457, post_upgrade (lines 245-263): conf is read again, and the cache,
\* supervisor and nginx configs are generated when restart_supervisor_on_update is
\* set; a generator that raises ends the run
PostUpgrade(ok) ==
    /\ pc = "post_upgrade"
    /\ IF UpgradeOrForce
       THEN LET conf2 == JsonLoad(files[CommonConfigPath(here)])
            IN  IF Truthy(DictGet(conf2, "restart_supervisor_on_update"))
                THEN /\ trace' = trace \o <<Step("post_upgrade"), Step("regenerate_configs")>>
                     /\ IF ok THEN pc' = "reload" /\ err' = err
                              ELSE pc' = "failed" /\ err' = "Exception"
                ELSE /\ trace' = Append(trace, Step("post_upgrade"))
                     /\ pc' = "reload" /\ err' = err
       ELSE pc' = "reload" /\ UNCHANGED <<trace, err>>
    /\ UNCHANGED <<files, inst, last, plan, vu, conf, rs>>

\* line 459: snova.reload(web=False, supervisor=..., systemd=...)
Reload(ok) ==
    /\ pc = "reload"
    /\ Outcome("reload", ok, "CalledProcessError", "exit_maintenance")
    /\ UNCHANGED <<files, inst, last, plan, vu, conf, rs>>

\* lines 461-462
ExitMaintenance ==
    /\ pc = "exit_maintenance"
    /\ conf' = DictUpdate(conf, << <<"maintenance_mode", Num(0)>>, <<"pause_scheduler", Num(0)>> >>)
    /\ files' = update_config(Fs, conf', here).files
    /\ trace' = Append(trace, Step("exit_maintenance"))
    /\ pc' = "done"
    /\ UNCHANGED <<inst, last, plan, vu, err, rs>>

\* an installation with maintenance mode off, and update() not yet called
Init ==
    /\ inst = here
    /\ \E c \in InitialConfs :
          files = [f \in AllFiles |->
                      IF f = CommonConfigPath(here) THEN JsonDump(c, TRUE) ELSE NoFile]
    /\ last = NoCall
    /\ IdleUpdate
    /\ IdleRestart

Next ==
    \/ \E args \in Plans : UpdateCall(args)
    \/ \E ok \in BOOLEAN : RunPatches(ok)
    \/ CheckRelease
    \/ \E on_master \in BOOLEAN : ValidateBranch(on_master)
    \/ \E major \in BOOLEAN : VersionDetect(major)
    \/ \E confirmed \in BOOLEAN, to_ver \in Versions, npm \in BOOLEAN, node \in BOOLEAN,
          nodejs \in BOOLEAN :
          HandleVersionUpgrade(confirmed, validate_upgrade(to_ver, npm, node, nodejs))
    \/ EnterMaintenance
    \/ \E ok \in BOOLEAN : Backup(ok)
    \/ \E ok \in BOOLEAN : Pull(ok)
    \/ \E ok \in BOOLEAN : Requirements(ok)
    \/ PatchDone
    \/ \E ok \in BOOLEAN : MigrateSite(ok)
    \/ \E ok \in BOOLEAN : Build(ok)
    \/ \E ok \in BOOLEAN : PostUpgrade(ok)
    \/ \E ok \in BOOLEAN : Reload(ok)
    \/ ExitMaintenance

Spec == Init /\ [][Next]_vars

----------------------------------------------------------------------------
(* Claims about update() *)

\* the run has ended
Ended == pc \in {"done", "failed"}

\* the last step the run executed
LastStep == trace[Len(trace)].step

\* C1: when the patch stage raises PatchError, the installation config on disk has
\* maintenance_mode = 1 once the run has ended, and neither the build stage, the
\* post-upgrade stage, the reload stage nor the write that ends maintenance was executed.
C1_PatchErrorHalts ==
    err = "PatchError" =>
        /\ pc = "failed"
        /\ plan.patch
        /\ Persisted["maintenance_mode"] = Num(1)
        /\ Executed \cap {"build", "post_upgrade", "regenerate_configs", "reload",
                          "exit_maintenance"} = {}

\* C1 witness: the second site's migration failed in a run with build enabled that
\* would have run the post-upgrade stage.
C1_Witness ==
    /\ err = "PatchError"
    /\ plan.build
    /\ UpgradeOrForce
    /\ trace[Len(trace)] = MigrateStep(sites[2])

\* the stages of the run that are enabled: all of them have been executed
AllEnabledExecuted ==
    /\ plan.backup => "backup" \in Executed
    /\ plan.pull => "pull" \in Executed
    /\ plan.requirements => "requirements" \in Executed
    /\ plan.patch => Migrated = Len(sites)
    /\ plan.build => "build" \in Executed
    /\ UpgradeOrForce => "post_upgrade" \in Executed
    /\ "reload" \in Executed
    /\ "exit_maintenance" \in Executed

\* C2: a run that has passed the write that enters maintenance ends in one of two
\* states: every enabled stage was executed and the config on disk has
\* maintenance_mode = 0 and pause_scheduler = 0; or one of the stages backup, pull,
\* requirements, patch and build failed, it was the last step executed, and the config
\* on disk has maintenance_mode = 1 and pause_scheduler = 1.
C2_TwoTerminalStates ==
    (Ended /\ "enter_maintenance" \in Executed) =>
        \/ /\ pc = "done"
           /\ AllEnabledExecuted
           /\ Persisted["maintenance_mode"] = Num(0)
           /\ Persisted["pause_scheduler"] = Num(0)
        \/ /\ pc = "failed"
           /\ LastStep \in {"backup", "pull", "requirements", "migrate_site", "build"}
           /\ Persisted["maintenance_mode"] = Num(1)
           /\ Persisted["pause_scheduler"] = Num(1)

\* C3: when the installation config has release_snova set, update() raises
\* CannotUpdateReleaseSnova before any step that can modify state has executed: the
\* internal patches among them.
C3_ReleaseBlocksBeforeAnyStep ==
    err = "CannotUpdateReleaseSnova" => trace = <<>>

\* the stages of the pipeline as trace names their steps, in the order update() has
\* them; the patch stage is its migrate_site steps, the post-upgrade stage is
\* post_upgrade and its generators
StageOrder ==
    << "enter_maintenance", "backup", "pull", "requirements", "migrate_site", "build",
       "post_upgrade", "regenerate_configs", "reload", "exit_maintenance" >>

StageSteps == {StageOrder[i] : i \in DOMAIN StageOrder}

\* the place of a step in StageOrder
Rank(name) == CHOOSE i \in DOMAIN StageOrder : StageOrder[i] = name

\* the steps of the pipeline executed so far, in order
Pipeline == SelectSeq(trace, LAMBDA e : e.step \in StageSteps)

\* the flag of a stage as the caller's arguments decide it: pull, patch, build and
\* requirements are all on when none of them was given
Enabled(flag) ==
    IF flag = "backup" THEN plan.given.backup
    ELSE \/ plan.given[flag]
         \/ ~(plan.given.pull \/ plan.given.patch \/ plan.given.build
                \/ plan.given.requirements)

\* the stage of a step has run to its end
StageDone(name) ==
    IF name = "migrate_site" THEN Migrated = Len(sites) ELSE name \in Executed

\* the condition under which update() runs a stage
StageRuns(name) ==
    CASE name = "backup" -> Enabled("backup")
      [] name = "pull" -> Enabled("pull")
      [] name = "requirements" -> Enabled("requirements")
      [] name = "migrate_site" -> Enabled("patch")
      [] name = "build" -> Enabled("build")
      [] name = "post_upgrade" -> UpgradeOrForce
      [] name = "regenerate_configs" ->
            UpgradeOrForce /\ Truthy(DictGet(conf, "restart_supervisor_on_update"))
      [] OTHER -> TRUE

\* C16: in every run of update() the steps of the pipeline are executed one after the
\* other in the order enter maintenance, backup, pull, requirements, patch, build,
\* post-upgrade, reload, exit maintenance; no stage is executed twice (the patch stage
\* migrates each site once); a stage is executed only if update() runs it, backup,
\* pull, requirements, patch and build by their flags, with pull, patch, build and
\* requirements all on when none of the four was given; and when a stage is executed,
\* every stage before it that update() runs has run to its end.
C16_StagesInOrder ==
    pc # "idle" =>
        /\ \A i, j \in DOMAIN Pipeline :
              i < j => \/ Rank(Pipeline[i].step) < Rank(Pipeline[j].step)
                       \/ /\ Pipeline[i].step = "migrate_site"
                          /\ Pipeline[j].step = "migrate_site"
                          /\ Pipeline[i].site < Pipeline[j].site
        /\ \A name \in Executed \cap StageSteps : StageRuns(name)
        /\ \A i \in DOMAIN Pipeline : \A k \in 1..(Rank(Pipeline[i].step) - 1) :
              StageRuns(StageOrder[k]) => StageDone(StageOrder[k])
        /\ pc = "done" => \A name \in StageSteps : StageRuns(name) => StageDone(name)

\* C16 witness: a run given none of pull, patch, build and requirements, with backup
\* on and a version upgrade, has ended after the write that exits maintenance, and
\* every stage was executed.
C16_Witness ==
    /\ pc = "done"
    /\ ~(plan.given.pull \/ plan.given.patch \/ plan.given.build \/ plan.given.requirements)
    /\ StageSteps \subseteq Executed
    /\ Len(Pipeline) = Len(StageOrder) + Len(sites) - 1

\* the errors of the checks update() makes before it enters maintenance: sys.exit(1) of
\* validate_branch, the abort of click.confirm and the exception of validate_upgrade
PreflightErrors == {"SystemExit", "Abort", "Please install nodejs and npm"}

\* C17: a run that validate_branch ends (sparrow or shopper on the branch master), that
\* the operator ends by declining a major upgrade, or that validate_upgrade ends for
\* want of node and npm, has ended before the write that enters maintenance: the
\* installation config on disk is what the run read, with maintenance_mode and
\* pause_scheduler not set, and no stage of the pipeline was executed.  The operator
\* is asked exactly in the runs with a major upgrade and without force, and a run in
\* which they were asked enters maintenance only if they agreed.
C17_PreflightBeforeMaintenance ==
    /\ err \in PreflightErrors =>
          /\ pc = "failed"
          /\ Executed \cap StageSteps = {}
          /\ JsonLoad(files[CommonConfigPath(here)]) = conf
          /\ Persisted["maintenance_mode"] = Num(0)
          /\ Persisted["pause_scheduler"] = Num(0)
    /\ err = "Abort" => vu /\ ~plan.force /\ LastStep = "confirm"
    /\ "confirm" \in Executed <=>
          (vu /\ ~plan.force /\ (err = "Abort" \/ pc \notin {"idle", "patches", "release",
                                                              "branch", "version", "confirm"}))
    /\ err = "SystemExit" => vu = FALSE /\ "confirm" \notin Executed

\* C17 witness: the operator declined a major upgrade in a run with backup on.
C17_Witness ==
    /\ err = "Abort"
    /\ plan.backup
    /\ pc = "failed"

\* the steps of patch_sites executed so far
Migrations == SelectSeq(trace, LAMBDA e : e.step = "migrate_site")

\* C20: patch_sites migrates the sites one after the other in the order of
\* snova.sites; the first migration that fails raises PatchError at once, with every
\* site before the failing one migrated and no site after it, and the run ends there:
\* the failing migration is the last step executed.
C20_PatchSitesHaltsAtFirstFailure ==
    /\ \A i \in DOMAIN Migrations : Migrations[i].site = sites[i]
    /\ err = "PatchError" =>
          /\ pc = "failed"
          /\ Migrations # <<>>
          /\ trace[Len(trace)] = MigrateStep(sites[Len(Migrations)])
    /\ ("build" \in Executed /\ plan.patch) => Len(Migrations) = Len(sites)

\* C20 witness: the migration of the second site failed, with a site before it, that
\* was migrated, and a site after it, that was not.
C20_Witness ==
    /\ err = "PatchError"
    /\ Migrations = <<MigrateStep(sites[1]), MigrateStep(sites[2])>>
    /\ Len(sites) > 2

\* restart_supervisor_on_update as the installation config on disk has it, where
\* post_upgrade reads it
ProductionManaged ==
    Truthy(DictGet(JsonLoad(files[CommonConfigPath(here)]), "restart_supervisor_on_update"))

\* the run is past the post-upgrade stage
PastPostUpgrade ==
    \/ pc \in {"reload", "exit_maintenance", "done"}
    \/ "reload" \in Executed

\* C21: the post-upgrade stage of update() is executed if and only if a major upgrade
\* was detected or force was given, and only after every earlier stage that is enabled
\* has run to its end; in it the cache, supervisor and nginx configs are generated if
\* and only if the installation config has restart_supervisor_on_update set; and a run
\* that has executed the stage always goes on to the reload and to the write that
\* exits maintenance.
C21_PostUpgradeThenReload ==
    pc # "idle" =>
        /\ "post_upgrade" \in Executed =>
              /\ UpgradeOrForce
              /\ \A k \in 1..(Rank("post_upgrade") - 1) :
                    StageRuns(StageOrder[k]) => StageDone(StageOrder[k])
        /\ (PastPostUpgrade /\ UpgradeOrForce) => "post_upgrade" \in Executed
        /\ "regenerate_configs" \in Executed <=>
              ("post_upgrade" \in Executed /\ ProductionManaged)
        /\ (Ended /\ "post_upgrade" \in Executed) =>
              /\ "reload" \in Executed
              /\ "exit_maintenance" \in Executed

----------------------------------------------------------------------------
(* snova/utils/snova.py: restart_systemd_processes *)

\* get_snova_name(snova_path): the name of the installation's directory
get_snova_name(snova_path) == IF snova_path = here THEN snova_name ELSE snova_path

\* the exit statuses systemctl is given: success and two failures
ExitStatuses == {0, 1, 3}

\* exec_cmd(cmd, _raise=_raise): a command that exits with a non-zero status makes
\* exec_cmd raise CommandFailedError when _raise is set, and return otherwise
exec_cmd(returncode, raise) ==
    IF returncode # 0 /\ raise THEN "raises" ELSE "returns"

\* the two commands, each on the units the target {snova_name}.target requires
StopUnits(name) == [cmd |-> "sudo systemctl stop", requires |-> name]

StartUnits(name) == [cmd |-> "sudo systemctl start", requires |-> name]

\* lines 326-327: the call.  cmds are the commands issued and codes the exit statuses
\* of those that have finished.
SystemdCall(snova_path, web_workers, raise) ==
    /\ rs.pc = "idle"
    /\ rs' = [pc |-> "stop", snova_name |-> get_snova_name(snova_path),
              web_workers |-> web_workers, raise |-> raise,
              cmds |-> <<>>, codes |-> <<>>, exc |-> "none"]
    /\ UNCHANGED <<files, inst, last, pc, plan, vu, conf, trace, err>>

\* line 328: the stop command is started
IssueStop ==
    /\ rs.pc = "stop"
    /\ rs' = [rs EXCEPT !.cmds = Append(@, StopUnits(rs.snova_name)), !.pc = "stopping"]
    /\ UNCHANGED <<files, inst, last, pc, plan, vu, conf, trace, err>>

\* StopExits going on to the start command whatever the stop command's exit status
StopExits_IgnoreFailure(returncode) ==
    /\ rs.pc = "stopping"
    /\ rs' = [rs EXCEPT !.codes = Append(@, returncode), !.pc = "start"]
    /\ UNCHANGED <<files, inst, last, pc, plan, vu, conf, trace, err>>

\* lines 328-332: the stop command exits, and exec_cmd returns or raises
StopExits(returncode) ==
    /\ rs.pc = "stopping"
    /\ rs' = IF exec_cmd(returncode, rs.raise) = "raises"
             THEN [rs EXCEPT !.codes = Append(@, returncode), !.pc = "raised",
                             !.exc = "CommandFailedError"]
             ELSE [rs EXCEPT !.codes = Append(@, returncode), !.pc = "start"]
    /\ UNCHANGED <<files, inst, last, pc, plan, vu, conf, trace, err>>

\* line 333: the start command is started
IssueStart ==
    /\ rs.pc = "start"
    /\ rs' = [rs EXCEPT !.cmds = Append(@, StartUnits(rs.snova_name)), !.pc = "starting"]
    /\ UNCHANGED <<files, inst, last, pc, plan, vu, conf, trace, err>>

\* lines 333-337: the start command exits, and exec_cmd returns or raises
StartExits(returncode) ==
    /\ rs.pc = "starting"
    /\ rs' = IF exec_cmd(returncode, rs.raise) = "raises"
             THEN [rs EXCEPT !.codes = Append(@, returncode), !.pc = "raised",
                             !.exc = "CommandFailedError"]
             ELSE [rs EXCEPT !.codes = Append(@, returncode), !.pc = "returned"]
    /\ UNCHANGED <<files, inst, last, pc, plan, vu, conf, trace, err>>

InitSystemd ==
    /\ inst = "."
    /\ files = [f \in AllFiles |-> NoFile]
    /\ last = NoCall
    /\ IdleUpdate
    /\ IdleRestart

NextSystemd ==
    \/ \E snova_path \in Paths, web_workers \in BOOLEAN, raise \in BOOLEAN :
          SystemdCall(snova_path, web_workers, raise)
    \/ IssueStop
    \/ \E returncode \in ExitStatuses : StopExits(returncode)
    \/ IssueStart
    \/ \E returncode \in ExitStatuses : StartExits(returncode)

SpecSystemd == InitSystemd /\ [][NextSystemd]_vars

----------------------------------------------------------------------------
(* Claims about restart_systemd_processes *)

\* C22: restart_systemd_processes issues the stop of the units its target requires
\* and, only after that command has exited, the start of the same units: the commands
\* issued are the stop, or the stop and then the start, never a start first and never
\* a start while the stop runs; and in strict mode, the default, a stop that fails
\* raises and no start is issued.
C22_StopThenStart ==
    rs.pc # "idle" =>
        /\ rs.cmds \in {<<>>, <<StopUnits(rs.snova_name)>>,
                         <<StopUnits(rs.snova_name), StartUnits(rs.snova_name)>>}
        /\ Len(rs.cmds) = 2 => Len(rs.codes) >= 1
        /\ rs.pc = "stopping" => rs.cmds = <<StopUnits(rs.snova_name)>>
        /\ (rs.raise /\ rs.codes # <<>> /\ rs.codes[1] # 0) =>
              /\ rs.pc = "raised"
              /\ rs.exc = "CommandFailedError"
              /\ rs.cmds = <<StopUnits(rs.snova_name)>>

\* C22 witness: in a call in strict mode the stop command failed; the call raised
\* after that one command.
C22_Witness ==
    /\ rs.pc = "raised"
    /\ rs.raise
    /\ rs.codes = <<1>>
    /\ rs.cmds = <<StopUnits(rs.snova_name)>>

====
